---- MODULE Spec2Model ----
(***************************************************************************)
(* Model of the secure-chat server (server.go): one handleClient goroutine *)
(* per accepted connection, the users table, the clients registry guarded  *)
(* by clientsMutex, and broadcast.                                         *)
(*                                                                         *)
(* Text is a sequence of one-character strings; a literal of the source    *)
(* that is written as a whole ("Username: ") is kept as one piece.         *)
(* The value a call returns is bound with \E over a singleton set.         *)
(***************************************************************************)
EXTENDS Naturals, Integers, Sequences, FiniteSets, TLC

\* ------------------------------------------------------------------ text

NL == "\n"

\* unicode.IsSpace for the characters that occur here (strings.TrimSpace)
WhiteSpace == {" ", "\t", "\n", "\r"}

RECURSIVE TrimLeftSpace(_)
TrimLeftSpace(s) ==
    IF s = <<>> THEN s
    ELSE IF Head(s) \in WhiteSpace THEN TrimLeftSpace(Tail(s)) ELSE s

RECURSIVE TrimRightSpace(_)
TrimRightSpace(s) ==
    IF s = <<>> THEN s
    ELSE IF s[Len(s)] \in WhiteSpace THEN TrimRightSpace(SubSeq(s, 1, Len(s) - 1)) ELSE s

\* strings.TrimSpace
TrimSpace(s) == TrimRightSpace(TrimLeftSpace(s))

\* strings.ReplaceAll(s, old, "") for a one-character old
RECURSIVE ReplaceAll(_, _)
ReplaceAll(s, old) ==
    IF s = <<>> THEN <<>>
    ELSE IF Head(s) = old THEN ReplaceAll(Tail(s), old)
         ELSE <<Head(s)>> \o ReplaceAll(Tail(s), old)

UpperCase == <<"A","B","C","D","E","F","G","H","I","J","K","L","M",
               "N","O","P","Q","R","S","T","U","V","W","X","Y","Z">>
LowerCase == <<"a","b","c","d","e","f","g","h","i","j","k","l","m",
               "n","o","p","q","r","s","t","u","v","w","x","y","z">>

LowerChar(ch) ==
    IF \E i \in 1..Len(UpperCase) : UpperCase[i] = ch
    THEN LowerCase[CHOOSE i \in 1..Len(UpperCase) : UpperCase[i] = ch]
    ELSE ch

\* strings.ToLower
ToLower(s) == [i \in 1..Len(s) |-> LowerChar(s[i])]

\* index of the first delim in s, 0 when there is none
IndexOf(s, delim) ==
    IF \E i \in 1..Len(s) : s[i] = delim
    THEN CHOOSE i \in 1..Len(s) : s[i] = delim /\ \A j \in 1..(i - 1) : s[j] # delim
    ELSE 0

Min(a, b) == IF a <= b THEN a ELSE b

\* the literals the handler compares the choice with
RegisterWord == <<"r","e","g","i","s","t","e","r">>
LoginWord == <<"l","o","g","i","n">>

\* hashPassword: SHA-256 hex digest, an opaque collision-free function of the
\* password bytes; the digest is never equal to the password itself
hashPassword(password) == <<"sha256:">> \o password

\* ------------------------------------------------------------ constants

\* generateRegistrationKey keeps the first 20 hex characters
KeyLen == 20
HexDigits == <<"0","1","2","3","4","5","6","7","8","9","a","b","c","d","e","f">>

\* two outcomes of generateRegistrationKey
KeyA == [i \in 1..KeyLen |-> HexDigits[((i * 7) % 16) + 1]]
KeyB == [i \in 1..KeyLen |-> HexDigits[((i * 5 + 3) % 16) + 1]]

\* buf := make([]byte, 1024) of the chat loop; bufio's default buffer
ChatBufSize == 1024
BufioSize == 4096

Conns == {"c1", "c2", "c3"}
None == "none"

\* ------------------------------------------------------------ variables

VARIABLES
    masterRegKey,  \* the registration code generated at startup
    db,            \* users table: username -> password digest (username UNIQUE)
    clients,       \* map[net.Conn]*Client: conn -> [conn, username]
    clientsMutex,  \* holder of clientsMutex, or None
    pc,            \* position of each handleClient goroutine
    usr,           \* handleClient's usr (after TrimSpace)
    reader,        \* bytes held by bufio.NewReader(conn), read but not consumed
    sock,          \* bytes that arrived on conn and were not read yet
    script,        \* segments the client has still to send
    peer,          \* "open", or "closed" once the client closed its side
    stalled,       \* TRUE while the client does not read and conn's send buffer is full
    closed,        \* TRUE once the deferred conn.Close() ran
    wrote,         \* the lines the handler wrote to its own conn, in order
    heard,         \* heard[c][s]: the messages broadcast calls of handler s wrote to c
    last,          \* last[c]: ticket of the broadcast call that wrote to c last
    werr,          \* werr[s]: keys whose write failed in the broadcast call of s in progress
    lines,         \* the raw lines reader.ReadString returned, in order
    regres,        \* outcome of the handler's INSERT: "none", "ok", "fail"
    exit,          \* the return statement the handler left by
    bmsg,          \* message of the broadcast call in progress; seq: its ticket once it holds the mutex
    order,         \* keys of clients the range loop of broadcast has still to visit
    after,         \* what follows the broadcast call: "loop" or "return"
    ticket,        \* number of broadcast calls that acquired clientsMutex so far
    regpw,         \* username -> the password as typed at its registration, and the conn it came on
    behav,         \* what each client may do: when it connects, closes and stops reading
    nstall,        \* number of times a client stopped reading so far
    nclose         \* number of clients that closed their stream so far

vars == <<masterRegKey, db, clients, clientsMutex, pc, usr, reader, sock, script, peer,
          stalled, closed, wrote, heard, last, werr, lines, regres, exit, bmsg, order,
          after, ticket, regpw, behav, nstall, nclose>>

\* --------------------------------------------------------------- bounds

\* how many times clients may stop reading in one run
MaxStall == 1
\* how many clients may close their stream in one run
MaxClose == 1

\* ------------------------------------------------------ the users table

\* an INSERT on a table without the UNIQUE constraint: the row is replaced
UsersInsertReplace(table, username, digest) ==
    [ok |-> TRUE,
     table |-> [u \in DOMAIN table \cup {username} |->
                   IF u = username THEN digest ELSE table[u]]]

\* an INSERT that reports the duplicate but has written the new digest
UsersInsertClobber(table, username, digest) ==
    [ok |-> username \notin DOMAIN table,
     table |-> [u \in DOMAIN table \cup {username} |->
                   IF u = username THEN digest ELSE table[u]]]

\* INSERT INTO users (username, password): fails on the UNIQUE username
UsersInsert(table, username, digest) ==
    IF username \in DOMAIN table
    THEN [ok |-> FALSE, table |-> table]
    ELSE [ok |-> TRUE,
          table |-> [u \in DOMAIN table \cup {username} |->
                        IF u = username THEN digest ELSE table[u]]]

\* SELECT password FROM users WHERE username = ?; Scan fails on no row
UsersSelect(table, username) ==
    IF username \in DOMAIN table
    THEN [found |-> TRUE, password |-> table[username]]
    ELSE [found |-> FALSE, password |-> <<>>]

EmptyTable == [u \in {} |-> <<>>]

\* ------------------------------------------------------------- reading

\* reader.ReadString('\n'): a line that is already buffered is returned without
\* touching the connection; otherwise the buffer is filled with what the
\* connection holds. "wait": blocked in conn.Read. "err": EOF before a delimiter.
ReadString(rb, sk, eof) ==
    LET i == IndexOf(rb, NL) IN
    IF i > 0
    THEN [status |-> "line", line |-> SubSeq(rb, 1, i),
          reader |-> SubSeq(rb, i + 1, Len(rb)), sock |-> sk]
    ELSE LET n == Min(Len(sk), BufioSize - Len(rb))
             filled == rb \o SubSeq(sk, 1, n)
             j == IndexOf(filled, NL)
         IN IF j > 0
            THEN [status |-> "line", line |-> SubSeq(filled, 1, j),
                  reader |-> SubSeq(filled, j + 1, Len(filled)),
                  sock |-> SubSeq(sk, n + 1, Len(sk))]
            ELSE IF eof
                 THEN [status |-> "err", line |-> filled, reader |-> <<>>, sock |-> <<>>]
                 ELSE [status |-> "wait", line |-> <<>>, reader |-> rb, sock |-> sk]

\* conn.Read(buf) of the chat loop: whatever the connection holds, up to len(buf)
ConnRead(sk, eof) ==
    IF sk # <<>>
    THEN LET n == Min(Len(sk), ChatBufSize)
         IN [status |-> "data", message |-> SubSeq(sk, 1, n),
             sock |-> SubSeq(sk, n + 1, Len(sk))]
    ELSE IF eof THEN [status |-> "err", message |-> <<>>, sock |-> sk]
         ELSE [status |-> "wait", message |-> <<>>, sock |-> sk]

\* ------------------------------------------------------------- writing

\* a write to c returns at once unless c's send buffer is full and the client
\* still holds the connection open
CanWrite(c) == ~stalled[c] \/ peer[c] = "closed"

\* fmt.Fprintln(conn, text) of the handler of c on its own connection
Fprintln(w, c, text) == [w EXCEPT ![c] = Append(@, text)]

MsgWelcome == <<"Welcome to the secure chat server!">>
MsgChoose == <<"Enter 'login' or 'register': ">>
MsgEnterCode == <<"Enter the server's registration code: ">>
MsgBadCode == <<"Invalid registration code. Closing connection.">>
MsgDesiredUser == <<"Enter your desired username: ">>
MsgDesiredPwd == <<"Enter your desired password (typing not hidden): ">>
\* Fprintln does not format: the verb is printed as it stands, then the error
MsgRegFailed == <<"Failed to register: %v\n", " ", "UNIQUE constraint failed: users.username">>
MsgRegOk == <<"Registration successful! You can now login.">>
MsgUsername == <<"Username: ">>
MsgPassword == <<"Password (typing not hidden): ">>
\* a rejection that tells the client the username does not exist
MsgNoSuchUser == <<"No such user.">>
\* line 170 (no row) and line 175 (digest mismatch)
MsgScanFailed == <<"Invalid username or password.">>
MsgWrongPassword == <<"Invalid username or password.">>
MsgBadChoice == <<"Invalid choice. Closing.">>
MsgWelcomeBack(u) == <<"Welcome back, ">> \o u \o <<"!">>
MsgJoined(u) == u \o <<" has joined the chat">>
MsgLeft(u) == u \o <<" has left the chat">>
MsgChat(u, message) == u \o <<": ">> \o message

NoMsg == [kind |-> "none", text |-> <<>>, seq |-> 0]

\* ------------------------------------------------------- handleClient

\* a return statement: the deferred conn.Close() runs and the connection's
\* buffers are released
Return(c, how) ==
    /\ pc' = [pc EXCEPT ![c] = "done"]
    /\ exit' = [exit EXCEPT ![c] = how]
    /\ closed' = [closed EXCEPT ![c] = TRUE]
    /\ reader' = [reader EXCEPT ![c] = <<>>]
    /\ sock' = [sock EXCEPT ![c] = <<>>]
    /\ script' = [script EXCEPT ![c] = <<>>]
    /\ stalled' = [stalled EXCEPT ![c] = FALSE]

\* the handler goes on to `next` after a read that left r.reader and r.sock
Continue(c, next, r) ==
    /\ pc' = [pc EXCEPT ![c] = next]
    /\ reader' = [reader EXCEPT ![c] = r.reader]
    /\ sock' = [sock EXCEPT ![c] = r.sock]
    /\ UNCHANGED <<exit, closed, script, stalled>>

\* a normalisation that removes the brackets before it trims
NormalizeCodeStripFirst(regAttempt) ==
    TrimSpace(ReplaceAll(ReplaceAll(regAttempt, "["), "]"))

\* the registration code as compared with masterRegKey (lines 110-114)
NormalizeCode(regAttempt) ==
    ReplaceAll(ReplaceAll(TrimSpace(regAttempt), "["), "]")

\* the comparison of line 117
CodeMatches(regAttempt, key) == NormalizeCode(regAttempt) = key

\* a Lock() that never waits: the registry is used without the mutex
MutexIgnored(m) == TRUE

\* clientsMutex.Lock() returns only while nobody holds the mutex
MutexFree(m) == m = None

\* a comparison that lets every password through
PasswordMatchesAny(pwd, storedPassword) == TRUE

\* the comparison of line 174
PasswordMatches(pwd, storedPassword) == hashPassword(pwd) = storedPassword

\* the accept loop of main: a client connects, `go handleClient(conn)` runs and
\* the handler writes its greeting (lines 90-91), which a fresh connection
\* always takes. A client marked "after" connects once the dialogue on the
\* connection before it is over.
Pred(c) == IF c = "c3" THEN "c2" ELSE "c1"

DialogueOver(c) == pc[c] \in {"add", "broadcast", "range", "chat", "done"}

Accept(c) ==
    /\ pc[c] = "idle"
    /\ behav[c].arrival # "never"
    /\ behav[c].arrival = "after" => DialogueOver(Pred(c))
    /\ wrote' = Fprintln(Fprintln(wrote, c, MsgWelcome), c, MsgChoose)
    /\ pc' = [pc EXCEPT ![c] = "choice"]
    /\ UNCHANGED <<masterRegKey, db, clients, clientsMutex, usr, reader, sock, script,
                   peer, stalled, closed, lines, regres, exit, bmsg, order, after,
                   ticket, regpw, behav, nstall, nclose, heard, last, werr>>

\* lines 93-101, 149-150, 202-204
ReadChoice(c) ==
    /\ pc[c] = "choice"
    /\ \E r \in {ReadString(reader[c], sock[c], peer[c] = "closed")} :
       \E userChoice \in {TrimSpace(r.line)} :
          /\ r.status # "wait"
          /\ IF r.status = "err"
             THEN Return(c, "eof") /\ UNCHANGED <<wrote, lines>>
             ELSE /\ CanWrite(c)
                  /\ lines' = [lines EXCEPT ![c] = Append(@, r.line)]
                  /\ IF ToLower(userChoice) = RegisterWord
                     THEN /\ wrote' = Fprintln(wrote, c, MsgEnterCode)
                          /\ Continue(c, "regcode", r)
                     ELSE IF ToLower(userChoice) = LoginWord
                     THEN /\ wrote' = Fprintln(wrote, c, MsgUsername)
                          /\ Continue(c, "loginusr", r)
                     ELSE /\ wrote' = Fprintln(wrote, c, MsgBadChoice)
                          /\ Return(c, "badchoice")
    /\ UNCHANGED <<masterRegKey, db, clients, clientsMutex, usr, peer, regres, bmsg,
                   order, after, ticket, regpw, behav, nstall, nclose, heard, last, werr>>

\* lines 102-122
ReadRegCode(c) ==
    /\ pc[c] = "regcode"
    /\ \E r \in {ReadString(reader[c], sock[c], peer[c] = "closed")} :
          /\ r.status # "wait"
          /\ IF r.status = "err"
             THEN Return(c, "eof") /\ UNCHANGED <<wrote, lines>>
             ELSE /\ CanWrite(c)
                  /\ lines' = [lines EXCEPT ![c] = Append(@, r.line)]
                  /\ IF ~CodeMatches(r.line, masterRegKey)
                     THEN /\ wrote' = Fprintln(wrote, c, MsgBadCode)
                          /\ Return(c, "badcode")
                     ELSE /\ wrote' = Fprintln(wrote, c, MsgDesiredUser)
                          /\ Continue(c, "regusr", r)
    /\ UNCHANGED <<masterRegKey, db, clients, clientsMutex, usr, peer, regres, bmsg,
                   order, after, ticket, regpw, behav, nstall, nclose, heard, last, werr>>

\* lines 123-131
ReadRegUser(c) ==
    /\ pc[c] = "regusr"
    /\ \E r \in {ReadString(reader[c], sock[c], peer[c] = "closed")} :
          /\ r.status # "wait"
          /\ IF r.status = "err"
             THEN Return(c, "eof") /\ UNCHANGED <<wrote, lines, usr>>
             ELSE /\ CanWrite(c)
                  /\ lines' = [lines EXCEPT ![c] = Append(@, r.line)]
                  /\ usr' = [usr EXCEPT ![c] = TrimSpace(r.line)]
                  /\ wrote' = Fprintln(wrote, c, MsgDesiredPwd)
                  /\ Continue(c, "regpwd", r)
    /\ UNCHANGED <<masterRegKey, db, clients, clientsMutex, peer, regres, bmsg,
                   order, after, ticket, regpw, behav, nstall, nclose, heard, last, werr>>

\* lines 132-142: the password is read and the row inserted
ReadRegPwd(c) ==
    /\ pc[c] = "regpwd"
    /\ \E r \in {ReadString(reader[c], sock[c], peer[c] = "closed")} :
       \E pwd \in {TrimSpace(r.line)} :
       \E ins \in {UsersInsert(db, usr[c], hashPassword(pwd))} :
          /\ r.status # "wait"
          /\ IF r.status = "err"
             THEN Return(c, "eof") /\ UNCHANGED <<lines, db, regres, regpw>>
             ELSE /\ lines' = [lines EXCEPT ![c] = Append(@, r.line)]
                  /\ db' = ins.table
                  /\ regres' = [regres EXCEPT ![c] = IF ins.ok THEN "ok" ELSE "fail"]
                  /\ regpw' = IF ins.ok
                              THEN [u \in DOMAIN regpw \cup {usr[c]} |->
                                      IF u = usr[c]
                                      THEN [password |-> SubSeq(r.line, 1, Len(r.line) - 1),
                                            by |-> c]
                                      ELSE regpw[u]]
                              ELSE regpw
                  /\ Continue(c, "regout", r)
    /\ UNCHANGED <<masterRegKey, clients, clientsMutex, usr, peer, wrote, bmsg,
                   order, after, ticket, behav, nstall, nclose, heard, last, werr>>

\* a registration that goes on to log the new user in
WriteRegResultLogin(c) ==
    /\ pc[c] = "regout"
    /\ CanWrite(c)
    /\ IF regres[c] = "ok"
       THEN /\ wrote' = Fprintln(wrote, c, MsgRegOk)
            /\ pc' = [pc EXCEPT ![c] = "add"]
            /\ UNCHANGED <<exit, closed, reader, sock, script, stalled>>
       ELSE wrote' = Fprintln(wrote, c, MsgRegFailed) /\ Return(c, "regfailed")
    /\ UNCHANGED <<masterRegKey, db, clients, clientsMutex, usr, peer, lines, regres,
                   bmsg, order, after, ticket, regpw, behav, nstall, nclose, heard, last, werr>>

\* lines 142-147: the outcome is written and the handler returns
WriteRegResult(c) ==
    /\ pc[c] = "regout"
    /\ CanWrite(c)
    /\ IF regres[c] = "ok"
       THEN wrote' = Fprintln(wrote, c, MsgRegOk) /\ Return(c, "registered")
       ELSE wrote' = Fprintln(wrote, c, MsgRegFailed) /\ Return(c, "regfailed")
    /\ UNCHANGED <<masterRegKey, db, clients, clientsMutex, usr, peer, lines, regres,
                   bmsg, order, after, ticket, regpw, behav, nstall, nclose, heard, last, werr>>

\* lines 151-158
ReadLoginUser(c) ==
    /\ pc[c] = "loginusr"
    /\ \E r \in {ReadString(reader[c], sock[c], peer[c] = "closed")} :
          /\ r.status # "wait"
          /\ IF r.status = "err"
             THEN Return(c, "eof") /\ UNCHANGED <<wrote, lines, usr>>
             ELSE /\ CanWrite(c)
                  /\ lines' = [lines EXCEPT ![c] = Append(@, r.line)]
                  /\ usr' = [usr EXCEPT ![c] = TrimSpace(r.line)]
                  /\ wrote' = Fprintln(wrote, c, MsgPassword)
                  /\ Continue(c, "loginpwd", r)
    /\ UNCHANGED <<masterRegKey, db, clients, clientsMutex, peer, regres, bmsg,
                   order, after, ticket, regpw, behav, nstall, nclose, heard, last, werr>>

\* lines 159-179
ReadLoginPwd(c) ==
    /\ pc[c] = "loginpwd"
    /\ \E r \in {ReadString(reader[c], sock[c], peer[c] = "closed")} :
       \E pwd \in {TrimSpace(r.line)} :
       \E row \in {UsersSelect(db, usr[c])} :
          /\ r.status # "wait"
          /\ IF r.status = "err"
             THEN Return(c, "eof") /\ UNCHANGED <<wrote, lines>>
             ELSE /\ CanWrite(c)
                  /\ lines' = [lines EXCEPT ![c] = Append(@, r.line)]
                  /\ IF ~row.found
                     THEN /\ wrote' = Fprintln(wrote, c, MsgScanFailed)
                          /\ Return(c, "nouser")
                     ELSE IF ~PasswordMatches(pwd, row.password)
                     THEN /\ wrote' = Fprintln(wrote, c, MsgWrongPassword)
                          /\ Return(c, "badpwd")
                     ELSE /\ wrote' = Fprintln(wrote, c, MsgWelcomeBack(usr[c]))
                          /\ Continue(c, "add", r)
    /\ UNCHANGED <<masterRegKey, db, clients, clientsMutex, usr, peer, regres, bmsg,
                   order, after, ticket, regpw, behav, nstall, nclose, heard, last, werr>>

\* a login that writes its welcome line after it has entered the registry
AddClientGreeting(c) ==
    /\ pc[c] = "add"
    /\ MutexFree(clientsMutex)
    /\ clients' = [k \in DOMAIN clients \cup {c} |->
                     IF k = c THEN [conn |-> c, username |-> usr[c]] ELSE clients[k]]
    /\ wrote' = Fprintln(wrote, c, MsgWelcomeBack(usr[c]))
    /\ bmsg' = [bmsg EXCEPT ![c] = [kind |-> "join", text |-> MsgJoined(usr[c]), seq |-> 0]]
    /\ after' = [after EXCEPT ![c] = "loop"]
    /\ pc' = [pc EXCEPT ![c] = "broadcast"]
    /\ UNCHANGED <<masterRegKey, db, clientsMutex, usr, reader, sock, script, peer,
                   stalled, closed, lines, regres, exit, order, ticket, regpw,
                   behav, nstall, nclose, heard, last, werr>>

\* a login that enters the registry without a join notice
AddClientSilent(c) ==
    /\ pc[c] = "add"
    /\ MutexFree(clientsMutex)
    /\ clients' = [k \in DOMAIN clients \cup {c} |->
                     IF k = c THEN [conn |-> c, username |-> usr[c]] ELSE clients[k]]
    /\ after' = [after EXCEPT ![c] = "loop"]
    /\ pc' = [pc EXCEPT ![c] = "chat"]
    /\ UNCHANGED <<masterRegKey, db, clientsMutex, usr, reader, sock, script, peer,
                   stalled, closed, wrote, lines, regres, exit, order, ticket, regpw,
                   behav, nstall, nclose, heard, last, werr, bmsg>>

\* lines 181-186: Lock, clients[conn] = &Client{...}, Unlock; broadcast is called next
AddClient(c) ==
    /\ pc[c] = "add"
    /\ MutexFree(clientsMutex)
    /\ clients' = [k \in DOMAIN clients \cup {c} |->
                     IF k = c THEN [conn |-> c, username |-> usr[c]] ELSE clients[k]]
    /\ bmsg' = [bmsg EXCEPT ![c] = [kind |-> "join", text |-> MsgJoined(usr[c]), seq |-> 0]]
    /\ after' = [after EXCEPT ![c] = "loop"]
    /\ pc' = [pc EXCEPT ![c] = "broadcast"]
    /\ UNCHANGED <<masterRegKey, db, clientsMutex, usr, reader, sock, script, peer,
                   stalled, closed, wrote, lines, regres, exit, order, ticket, regpw,
                   behav, nstall, nclose, heard, last, werr>>

\* lines 191, 199-200: one conn.Read of the chat loop that returns data
ChatRead(c) ==
    /\ pc[c] = "chat"
    /\ \E r \in {ConnRead(sock[c], peer[c] = "closed")} :
          /\ r.status = "data"
          /\ sock' = [sock EXCEPT ![c] = r.sock]
          /\ bmsg' = [bmsg EXCEPT ![c] = [kind |-> "chat", text |-> MsgChat(usr[c], r.message), seq |-> 0]]
    /\ after' = [after EXCEPT ![c] = "loop"]
    /\ pc' = [pc EXCEPT ![c] = "broadcast"]
    /\ UNCHANGED <<masterRegKey, db, clients, clientsMutex, usr, reader, script, peer,
                   stalled, closed, wrote, lines, regres, exit, order, ticket, regpw,
                   behav, nstall, nclose, heard, last, werr>>

\* a registry keyed by username: a read error removes every entry of the name
RemoveClientByName(c) ==
    /\ pc[c] = "chat"
    /\ ConnRead(sock[c], peer[c] = "closed").status = "err"
    /\ MutexFree(clientsMutex)
    /\ clients' = [k \in {j \in DOMAIN clients : clients[j].username # usr[c]} |->
                     clients[k]]
    /\ bmsg' = [bmsg EXCEPT ![c] = [kind |-> "leave", text |-> MsgLeft(usr[c]), seq |-> 0]]
    /\ after' = [after EXCEPT ![c] = "return"]
    /\ pc' = [pc EXCEPT ![c] = "broadcast"]
    /\ UNCHANGED <<masterRegKey, db, clientsMutex, usr, reader, sock, script, peer,
                   stalled, closed, wrote, lines, regres, exit, order, ticket, regpw,
                   behav, nstall, nclose, heard, last, werr>>

\* a read error after which the leave notice is broadcast with the entry kept
RemoveClientKeep(c) ==
    /\ pc[c] = "chat"
    /\ ConnRead(sock[c], peer[c] = "closed").status = "err"
    /\ MutexFree(clientsMutex)
    /\ bmsg' = [bmsg EXCEPT ![c] = [kind |-> "leave", text |-> MsgLeft(usr[c]), seq |-> 0]]
    /\ after' = [after EXCEPT ![c] = "return"]
    /\ pc' = [pc EXCEPT ![c] = "broadcast"]
    /\ UNCHANGED <<masterRegKey, db, clients, clientsMutex, usr, reader, sock, script,
                   peer, stalled, closed, wrote, lines, regres, exit, order, ticket,
                   regpw, behav, nstall, nclose, heard, last, werr>>

\* lines 191-196: conn.Read fails; Lock, delete(clients, conn), Unlock; broadcast
\* is called next
RemoveClient(c) ==
    /\ pc[c] = "chat"
    /\ ConnRead(sock[c], peer[c] = "closed").status = "err"
    /\ MutexFree(clientsMutex)
    /\ clients' = [k \in DOMAIN clients \ {c} |-> clients[k]]
    /\ bmsg' = [bmsg EXCEPT ![c] = [kind |-> "leave", text |-> MsgLeft(usr[c]), seq |-> 0]]
    /\ after' = [after EXCEPT ![c] = "return"]
    /\ pc' = [pc EXCEPT ![c] = "broadcast"]
    /\ UNCHANGED <<masterRegKey, db, clientsMutex, usr, reader, sock, script, peer,
                   stalled, closed, wrote, lines, regres, exit, order, ticket, regpw,
                   behav, nstall, nclose, heard, last, werr>>

\* ----------------------------------------------------------- broadcast

\* a range loop without the test: the sender is written to as well
IsRecipientAll(k, sender) == TRUE

\* the test `c != sender` of the range loop
IsRecipient(k, sender) == k # sender

\* the orders in which `range clients` may visit the keys (unspecified in Go)
Orders(keys) ==
    {o \in [1..Cardinality(keys) -> keys] : \A i, j \in DOMAIN o : i # j => o[i] # o[j]}

\* a loop over every connection the server has accepted, registered or not
TargetsAccepted(o, sender) ==
    SelectSeq(<<"c1", "c2", "c3">>, LAMBDA k : pc[k] # "idle" /\ k # sender)

\* the keys of a visiting order that the loop writes to: the test `c != sender`
\* drops the sender, and skipping it neither blocks nor writes
Targets(o, sender) == SelectSeq(o, LAMBDA k : IsRecipient(k, sender))

\* a loop that gives up at the first failed write
NextKeysUntilError(rest, ok) == IF ok THEN rest ELSE <<>>

\* the keys left to visit after a write: the loop goes on whatever Fprintln
\* returned
NextKeys(rest, ok) == rest

\* clientsMutex.Lock() of broadcast; the range loop starts
BroadcastLock(c) ==
    /\ pc[c] = "broadcast"
    /\ MutexFree(clientsMutex)
    /\ clientsMutex' = c
    /\ ticket' = ticket + 1
    /\ \E o \in Orders(DOMAIN clients) : order' = [order EXCEPT ![c] = Targets(o, c)]
    /\ bmsg' = [bmsg EXCEPT ![c].seq = ticket + 1]
    /\ pc' = [pc EXCEPT ![c] = "range"]
    /\ UNCHANGED <<masterRegKey, db, clients, usr, reader, sock, script, peer, stalled,
                   closed, wrote, heard, last, werr, lines, regres, exit, after,
                   regpw, behav, nstall, nclose>>

\* one writing iteration of the range loop: fmt.Fprintln(c, message) to the
\* next key. The write blocks while that client's send buffer is full, and fails
\* when the client is gone; the result is not looked at.
BroadcastVisit(c) ==
    /\ pc[c] = "range"
    /\ order[c] # <<>>
    /\ LET k == Head(order[c])
       IN /\ CanWrite(k)
          /\ IF peer[k] = "open"
             THEN /\ heard' = [heard EXCEPT ![k][c] = Append(@, bmsg[c].text)]
                  /\ last' = [last EXCEPT ![k] = bmsg[c].seq]
                  /\ UNCHANGED werr
             ELSE /\ werr' = [werr EXCEPT ![c] = @ \cup {k}]
                  /\ UNCHANGED <<heard, last>>
    /\ order' = [order EXCEPT ![c] = NextKeys(Tail(@), peer[Head(@)] = "open")]
    /\ UNCHANGED <<masterRegKey, db, clients, clientsMutex, pc, usr, reader, sock,
                   script, peer, stalled, closed, wrote, lines, regres, exit, bmsg, after,
                   ticket, regpw, behav, nstall, nclose>>

\* the loop is over: the deferred Unlock runs and broadcast returns, into the
\* chat loop (lines 186, 200) or to the return of line 197
BroadcastUnlock(c) ==
    /\ pc[c] = "range"
    /\ order[c] = <<>>
    /\ clientsMutex' = None
    /\ bmsg' = [bmsg EXCEPT ![c] = NoMsg]
    /\ werr' = [werr EXCEPT ![c] = {}]
    /\ IF after[c] = "return"
       THEN Return(c, "left")
       ELSE /\ pc' = [pc EXCEPT ![c] = "chat"]
            /\ UNCHANGED <<exit, closed, reader, sock, script, stalled>>
    /\ UNCHANGED <<masterRegKey, db, clients, usr, peer, wrote, heard, last, lines,
                   regres, order, after, ticket, regpw, behav, nstall, nclose>>

\* ---------------------------------------------------------- the clients

\* The clients modelled are interactive: a client acts on its connection (sends
\* its next segment, closes, stops reading) only while its handler is blocked in
\* a read with nothing left to consume. Bytes sent ahead of the prompt are a
\* segment that holds more than one line. behav[c] says what client c may do:
\*   arrival  "any", "after" (the dialogue on the connection before it), "never"
\*   hangup   "any" (closes at any prompt or in the chat), "chat", "never"
\*   slow     "any", "chat", "never": where it may stop reading
ReadPcs == {"choice", "regcode", "regusr", "regpwd", "loginusr", "loginpwd"}

Waiting(c) ==
    \/ pc[c] \in ReadPcs /\ ReadString(reader[c], sock[c], peer[c] = "closed").status = "wait"
    \/ pc[c] = "chat" /\ ConnRead(sock[c], peer[c] = "closed").status = "wait"

May(c, what) == what = "any" \/ (what = "chat" /\ pc[c] = "chat")

\* the next segment of the client's bytes arrives at the server
ClientSend(c) ==
    /\ Waiting(c)
    /\ script[c] # <<>>
    /\ sock' = [sock EXCEPT ![c] = @ \o Head(script[c])]
    /\ script' = [script EXCEPT ![c] = Tail(@)]
    /\ UNCHANGED <<masterRegKey, db, clients, clientsMutex, pc, usr, reader, peer,
                   stalled, closed, wrote, lines, regres, exit, bmsg, order, after,
                   ticket, regpw, behav, nstall, nclose, heard, last, werr>>

\* the client closes the stream (/exit, or the process is killed)
ClientClose(c) ==
    /\ Waiting(c)
    /\ May(c, behav[c].hangup)
    /\ nclose < MaxClose
    /\ nclose' = nclose + 1
    /\ peer' = [peer EXCEPT ![c] = "closed"]
    /\ script' = [script EXCEPT ![c] = <<>>]
    /\ stalled' = [stalled EXCEPT ![c] = FALSE]
    /\ UNCHANGED <<masterRegKey, db, clients, clientsMutex, pc, usr, reader, sock,
                   closed, wrote, lines, regres, exit, bmsg, order, after, ticket,
                   regpw, behav, nstall, heard, last, werr>>

\* the client stops reading and the connection's send buffer fills up
ClientStall(c) ==
    /\ Waiting(c)
    /\ May(c, behav[c].slow)
    /\ ~stalled[c]
    /\ nstall < MaxStall
    /\ stalled' = [stalled EXCEPT ![c] = TRUE]
    /\ nstall' = nstall + 1
    /\ UNCHANGED <<masterRegKey, db, clients, clientsMutex, pc, usr, reader, sock,
                   script, peer, closed, wrote, lines, regres, exit, bmsg, order, after,
                   ticket, regpw, behav, nclose, heard, last, werr>>

\* the client reads again
ClientResume(c) ==
    /\ stalled[c]
    /\ stalled' = [stalled EXCEPT ![c] = FALSE]
    /\ UNCHANGED <<masterRegKey, db, clients, clientsMutex, pc, usr, reader, sock,
                   script, peer, closed, wrote, lines, regres, exit, bmsg, order, after,
                   ticket, regpw, behav, nstall, nclose, heard, last, werr>>

\* ------------------------------------------------------------ scenarios

Al == <<"a","l">>
Bo == <<"b","o">>
Cy == <<"c","y">>
Pw == <<"p","w">>
Px == <<"p","x">>
Hi == <<"h","i">>
Yo == <<"y","o">>

Line(s) == s \o <<NL>>

\* what a client types to register, one segment per line (client.go, line 49)
RegisterScript(choice, code, u, p) == <<Line(choice), Line(code), Line(u), Line(p)>>
\* what a client types to log in, followed by its chat segments
LoginScript(choice, u, p, chat) == <<Line(choice), Line(u), Line(p)>> \o chat
\* a client that sends its whole login at once, then its chat segments
QuickLogin(choice, u, p, chat) == <<Line(choice) \o Line(u) \o Line(p)>> \o chat

NoScript == <<>>

\* registration codes a client may type for the key
Codes(key) ==
    { key,
      <<"[">> \o key \o <<"]">>,
      <<" ", "[">> \o key \o <<"]", "\r">>,
      <<"[", " ">> \o key \o <<" ", "]">>,
      [key EXCEPT ![KeyLen] = IF @ = "0" THEN "1" ELSE "0"],
      SubSeq(key, 1, KeyLen - 1),
      key \o <<"0">>,
      <<>> }

\* the table after al and bo registered with password pw on connections that
\* have since returned
TwoUsers == [u \in {Al, Bo} |-> hashPassword(Pw)]
TwoUsersTyped == [u \in {Al, Bo} |-> [password |-> Pw, by |-> "earlier"]]


\* one connection: the choice and the registration code
GateScenarios ==
    {[key |-> k, db |-> EmptyTable, typed |-> EmptyTable,
      script |-> [c \in Conns |-> IF c = "c1" THEN sc ELSE NoScript],
      behav |-> [c \in Conns |->
                   [arrival |-> IF c = "c1" THEN "any" ELSE "never",
                    hangup |-> "any", slow |-> "any"]]] :
        k \in {KeyA, KeyB},
        sc \in {RegisterScript(RegisterWord, code, Al, Pw) : code \in Codes(KeyA) \cup Codes(KeyB)}
               \cup {RegisterScript(<<" ","R","e","g","I","S","T","E","R"," ">>, KeyA, Al, Pw),
                     LoginScript(<<"q","u","i","t">>, Al, Pw, <<>>),
                     LoginScript(<<>>, Al, Pw, <<>>)}}

Everyone(arrival, hangup, slow) ==
    [c \in Conns |-> [arrival |-> arrival, hangup |-> hangup, slow |-> slow]]

\* three concurrent dialogues on an empty table: two registrations and a login,
\* or one registration and two logins
RaceScenarios ==
    {[key |-> KeyA, db |-> EmptyTable, typed |-> EmptyTable,
      script |-> [c \in Conns |->
                    IF c = "c1" THEN RegisterScript(RegisterWord, KeyA, Al, Pw)
                    ELSE IF c = "c2" THEN RegisterScript(RegisterWord, KeyA, up[1], up[2])
                    ELSE LoginScript(LoginWord, Al, p3, <<>>)],
      behav |-> Everyone("any", "never", "never")] :
        up \in {<<Al, Px>>, <<Bo, Pw>>, <<<<>>, Pw>>},
        p3 \in {Pw, <<" ">> \o Pw \o <<" ">>, Px}}
    \cup
    {[key |-> KeyB, db |-> EmptyTable, typed |-> EmptyTable,
      script |-> [c \in Conns |->
                    IF c = "c1" THEN RegisterScript(RegisterWord, KeyB, Al, Pw)
                    ELSE IF c = "c2" THEN LoginScript(LoginWord, Cy, Pw, <<>>)
                    ELSE LoginScript(LoginWord, Al, Px, <<>>)],
      behav |-> Everyone("any", "never", "never")],
     \* a username of one space is registered and then used to log in
     [key |-> KeyA, db |-> EmptyTable, typed |-> EmptyTable,
      script |-> [c \in Conns |->
                    IF c = "c1" THEN RegisterScript(RegisterWord, KeyA, <<" ">>, Pw)
                    ELSE IF c = "c2" THEN LoginScript(LoginWord, <<" ">>, Pw, <<>>)
                    ELSE LoginScript(LoginWord, Al, Pw, <<>>)],
      behav |-> Everyone("any", "never", "never")]}

\* the clients of the chat scenarios connect one after the other, stay through
\* the dialogue, and may close once they chat; the second one may stop reading
ChatBehav ==
    [c \in Conns |-> [arrival |-> IF c = "c1" THEN "any" ELSE "after",
                      hangup |-> "chat",
                      slow |-> IF c = "c2" THEN "chat" ELSE "never"]]

ChatScenario(s1, s2, s3) ==
    [key |-> KeyA, db |-> TwoUsers, typed |-> TwoUsersTyped,
     script |-> [c \in Conns |-> IF c = "c1" THEN s1 ELSE IF c = "c2" THEN s2 ELSE s3],
     behav |-> ChatBehav]

\* al, bo and al again; al's first session says hi
ChatTwice ==
    ChatScenario(QuickLogin(LoginWord, Al, Pw, <<Line(Hi)>>),
                 QuickLogin(<<"L","O","G","I","N">>, Bo, Pw, <<>>),
                 QuickLogin(LoginWord, Al, Pw, <<>>))

\* three logins on a table with two users
ChatScenarios ==
    { ChatTwice,
      \* hi arrives in two segments; bo says yo; the third login names no user
      ChatScenario(QuickLogin(LoginWord, Al, Pw, <<<<"h">>, <<"i", NL>>>>),
                   QuickLogin(LoginWord, Bo, Pw, <<Line(Yo)>>),
                   QuickLogin(LoginWord, Cy, Pw, <<>>)),
      \* two lines arrive in one segment; the third login has a wrong password
      ChatScenario(QuickLogin(LoginWord, Al, Pw, <<Line(Hi) \o Line(Yo)>>),
                   QuickLogin(LoginWord, Bo, Pw, <<>>),
                   QuickLogin(LoginWord, Bo, Px, <<>>)),
      \* the third client sends its first chat line along with its password
      ChatScenario(QuickLogin(LoginWord, Al, Pw, <<>>),
                   QuickLogin(LoginWord, Bo, Pw, <<Line(Yo)>>),
                   <<Line(LoginWord), Line(Bo), Line(Pw) \o Line(Hi)>>) }

Scenarios == GateScenarios \cup RaceScenarios \cup ChatScenarios

\* the scenarios of the liveness specification: every dialogue, one chat
LiveScenarios ==
    GateScenarios \cup {s \in RaceScenarios : s.key = KeyB} \cup {ChatTwice}

\* ------------------------------------------------------- specification

\* main has generated the key and listens; no client has connected yet
InitOf(scenarios) ==
    \E s \in scenarios :
        /\ masterRegKey = s.key
        /\ db = s.db
        /\ regpw = s.typed
        /\ script = s.script
        /\ behav = s.behav
        /\ pc = [c \in Conns |-> "idle"]
        /\ clients = [k \in {} |-> [conn |-> k, username |-> <<>>]]
        /\ clientsMutex = None
        /\ usr = [c \in Conns |-> <<>>]
        /\ reader = [c \in Conns |-> <<>>]
        /\ sock = [c \in Conns |-> <<>>]
        /\ peer = [c \in Conns |-> "open"]
        /\ stalled = [c \in Conns |-> FALSE]
        /\ closed = [c \in Conns |-> FALSE]
        /\ wrote = [c \in Conns |-> <<>>]
        /\ heard = [c \in Conns |-> [b \in Conns |-> <<>>]]
        /\ last = [c \in Conns |-> 0]
        /\ werr = [c \in Conns |-> {}]
        /\ lines = [c \in Conns |-> <<>>]
        /\ regres = [c \in Conns |-> "none"]
        /\ exit = [c \in Conns |-> "none"]
        /\ bmsg = [c \in Conns |-> NoMsg]
        /\ order = [c \in Conns |-> <<>>]
        /\ after = [c \in Conns |-> "loop"]
        /\ ticket = 0
        /\ nstall = 0
        /\ nclose = 0

Init == InitOf(Scenarios)

LiveInit == InitOf(LiveScenarios)

Handler(c) ==
    \/ ReadChoice(c)
    \/ ReadRegCode(c)
    \/ ReadRegUser(c)
    \/ ReadRegPwd(c)
    \/ WriteRegResult(c)
    \/ ReadLoginUser(c)
    \/ ReadLoginPwd(c)
    \/ AddClient(c)
    \/ BroadcastLock(c)
    \/ BroadcastVisit(c)
    \/ BroadcastUnlock(c)
    \/ ChatRead(c)
    \/ RemoveClient(c)

Client(c) ==
    \/ ClientSend(c)
    \/ ClientClose(c)
    \/ ClientStall(c)
    \/ ClientResume(c)

Next == \E c \in Conns : Accept(c) \/ Handler(c) \/ Client(c)

Spec == Init /\ [][Next]_vars

\* goroutines are scheduled fairly; nothing makes a client read, send or close
LiveSpec == LiveInit /\ [][Next]_vars /\ \A c \in Conns : WF_vars(Handler(c))

\* --------------------------------------------------------------- claims

Last(q) == q[Len(q)]

Registered == DOMAIN clients

\* a broadcast call of s has visited every key and still holds the mutex
LoopOver(s) == pc[s] = "range" /\ order[s] = <<>>

\* C1. Fan-out: when the broadcast of a chat message by session s has gone
\* through the registry, every other registered session was written that
\* message (the write went through, or failed because that client is gone), and
\* no broadcast of s is ever written to s's own connection.
C1_FanOut ==
    \A s \in Conns :
        /\ heard[s][s] = <<>>
        /\ (LoopOver(s) /\ bmsg[s].kind = "chat") =>
               \A r \in Registered \ {s} :
                   \/ r \in werr[s]
                   \/ /\ last[r] = bmsg[s].seq
                      /\ heard[r][s] # <<>>
                      /\ Last(heard[r][s]) = bmsg[s].text

C1_Witness ==
    \E s \in Conns :
        /\ LoopOver(s) /\ bmsg[s].kind = "chat"
        /\ s \in Registered
        /\ Cardinality(Registered \ {s}) = 2
        /\ \A r \in Registered \ {s} :
               last[r] = bmsg[s].seq /\ Last(heard[r][s]) = bmsg[s].text

\* the "has left the chat" notices of l's handler written to r's connection
LeftNotices(r, l) == SelectSeq(heard[r][l], LAMBDA m : m = MsgLeft(usr[l]))

\* l's client has closed the stream while l and r are both in the registry
AbruptClose(l, r) ==
    /\ l # r
    /\ l \in Registered /\ r \in Registered
    /\ peer[l] = "closed" /\ peer[r] = "open"

\* r has been written one notice for l, and l is out of the registry
Notified(r, l) == l \notin Registered /\ Len(LeftNotices(r, l)) = 1

\* C2. Leave notice: once the stream of a chatting session l is closed, every
\* session r registered at that moment is eventually written exactly one
\* "<username> has left the chat" for l, with l out of the registry, unless
\* r itself leaves the registry, closes or stops reading first.
C2_LeaveNotice ==
    \A l \in Conns : \A r \in Conns :
        AbruptClose(l, r) ~>
            \/ r \notin Registered
            \/ peer[r] = "closed"
            \/ stalled[r]
            \/ Notified(r, l)

\* the handlers that ran the INSERT for username u
Registrants(u) == {c \in Conns : regres[c] # "none" /\ usr[c] = u}

Succeeded(u) == {c \in Registrants(u) : regres[c] = "ok"}

\* u was in the table before any of the connections was accepted
RegisteredEarlier(u) == u \in DOMAIN regpw /\ regpw[u].by = "earlier"

\* C3. Atomic insert-if-absent: of the registration attempts for one username
\* that passed the code check, in whatever order or interleaving, exactly one
\* succeeds and every other one fails; there are never two successes. (When the
\* username was already in the table, none succeeds.)
C3_RegisterOnce ==
    \A c \in Conns :
        regres[c] # "none" =>
            /\ Cardinality(Succeeded(usr[c])) <= 1
            /\ Cardinality(Succeeded(usr[c])) =
                   IF RegisteredEarlier(usr[c]) THEN 0 ELSE 1
            /\ usr[c] \in DOMAIN db
            /\ exit[c] = "registered" => regres[c] = "ok"
            /\ exit[c] = "regfailed" => regres[c] = "fail"

C3_Witness ==
    \E c \in Conns : \E d \in Conns \ {c} :
        /\ usr[c] = usr[d]
        /\ exit[c] = "registered" /\ exit[d] = "regfailed"
        /\ Last(wrote[c]) = MsgRegOk /\ Last(wrote[d]) = MsgRegFailed

\* a line as the client typed it: without the delimiter
Typed(line) == SubSeq(line, 1, Len(line) - 1)

\* c took the login branch and its username and password lines were read
LoginTried(c) ==
    /\ Len(lines[c]) = 3
    /\ ToLower(TrimSpace(lines[c][1])) = LoginWord

Welcomed(c) ==
    /\ exit[c] \notin {"nouser", "badpwd"}
    /\ Last(wrote[c]) = MsgWelcomeBack(usr[c])

Rejected(c) ==
    /\ exit[c] = "badpwd" /\ closed[c]
    /\ Last(wrote[c]) = MsgWrongPassword

\* C4. A login that names a registered username succeeds when the password
\* line is exactly the password that was typed at registration, and fails
\* with "Invalid username or password." and a closed connection when the
\* password line is anything else.
C4_ExactPair ==
    \A c \in Conns :
        (/\ LoginTried(c)
         /\ Typed(lines[c][2]) \in DOMAIN regpw
         /\ exit[c] # "nouser") =>
            IF Typed(lines[c][3]) = regpw[Typed(lines[c][2])].password
            THEN Welcomed(c)
            ELSE Rejected(c)

\* the lines written to a client whose login was refused
RefusedDialogue ==
    <<MsgWelcome, MsgChoose, MsgUsername, MsgPassword, <<"Invalid username or password.">>>>

\* c never was in the registry: no broadcast was made on its behalf
NeverRegistered(c) ==
    /\ c \notin Registered
    /\ \A k \in Conns : heard[k][c] = <<>>

\* C5. No username enumeration: a login with a username that is not in the
\* table and a login with an existing username and a wrong password are written
\* the same sequence of lines, and both connections are closed without
\* having entered the registry.
C5_NoEnumeration ==
    \A c \in Conns : \A d \in Conns :
        (exit[c] = "nouser" /\ exit[d] \in {"nouser", "badpwd"}) =>
            /\ wrote[c] = wrote[d]
            /\ wrote[d] = RefusedDialogue
            /\ closed[c] /\ closed[d]
            /\ NeverRegistered(c) /\ NeverRegistered(d)

C5_Witness ==
    \E c \in Conns : \E d \in Conns :
        /\ exit[c] = "nouser" /\ usr[c] \notin DOMAIN db
        /\ exit[d] = "badpwd" /\ usr[d] \in DOMAIN db
        /\ wrote[c] = wrote[d]

\* the supplied code with the surrounding white space trimmed and then every
\* bracket removed
Stripped(raw) == SelectSeq(TrimSpace(raw), LAMBDA ch : ch \notin {"[", "]"})

\* c took the register branch and its registration code line was read
CodeTried(c) ==
    /\ Len(lines[c]) >= 2
    /\ ToLower(TrimSpace(lines[c][1])) = RegisterWord

CodeRefused(c) ==
    /\ exit[c] = "badcode" /\ closed[c]
    /\ Last(wrote[c]) = MsgBadCode
    /\ regres[c] = "none" /\ Len(lines[c]) = 2

\* C6. Registration gate: a code that, trimmed and with its brackets removed,
\* differs from the registration key is refused with "Invalid registration
\* code. Closing connection." and the handler never runs the INSERT; a code
\* that then equals the key, such as the key wrapped in brackets, is let through
\* to the username prompt.
C6_Gate ==
    \A c \in Conns :
        CodeTried(c) =>
            /\ Stripped(lines[c][2]) # masterRegKey => CodeRefused(c)
            /\ Stripped(lines[c][2]) = masterRegKey =>
                   exit[c] # "badcode" /\ wrote[c][4] = MsgDesiredUser
            /\ Typed(lines[c][2]) = <<"[">> \o masterRegKey \o <<"]">> =>
                   exit[c] # "badcode"

\* a code one character away from the key was refused
C6_Witness ==
    \E c \in Conns :
        /\ CodeTried(c) /\ CodeRefused(c)
        /\ Len(Typed(lines[c][2])) = KeyLen
        /\ Cardinality({i \in 1..KeyLen : Typed(lines[c][2])[i] # masterRegKey[i]}) = 1

\* C7. Broadcast ordering: the messages written to a receiver's connection
\* are written in the order in which their broadcast calls acquired
\* clientsMutex: a write never follows a write of a later call.
C7_LockOrder ==
    [][\A r \in Conns : last'[r] # last[r] => last'[r] > last[r]]_vars

\* one call has written to r while another call waits for the mutex
C7_Witness ==
    \E a \in Conns : \E b \in Conns : \E r \in Registered \ {a, b} :
        /\ pc[a] = "range" /\ pc[b] = "broadcast"
        /\ last[r] = bmsg[a].seq
        /\ heard[r][b] # <<>>

\* C8. Failure isolation: a broadcast in which the write to some recipient
\* failed has still written to every other registered recipient when it
\* returns, it leaves the failing recipient in the registry, and the
\* broadcaster goes on as after any broadcast: back to its read loop, or to its
\* return after the leave notice.
C8_Isolation ==
    [][\A s \in Conns :
          (pc[s] = "range" /\ pc'[s] # "range" /\ werr[s] # {}) =>
              /\ \A r \in Registered \ ({s} \cup werr[s]) : last[r] = bmsg[s].seq
              /\ werr[s] \subseteq DOMAIN clients'
              /\ pc'[s] = IF after[s] = "return" THEN "done" ELSE "chat"
              /\ after[s] = "loop" => exit'[s] = "none" /\ ~closed'[s]]_vars

C8_Witness ==
    \E s \in Conns :
        /\ LoopOver(s) /\ after[s] = "loop"
        /\ werr[s] # {}
        /\ \E r \in Registered \ ({s} \cup werr[s]) : last[r] = bmsg[s].seq

\* b holds clientsMutex in a write to a client that has stopped reading
BlockedInWrite(b) ==
    /\ pc[b] = "range" /\ order[b] # <<>>
    /\ ~CanWrite(Head(order[b]))

\* c is at a clientsMutex.Lock(): to add itself, to remove itself or to broadcast
AtLock(c) ==
    \/ pc[c] \in {"add", "broadcast"}
    \/ pc[c] = "chat" /\ ConnRead(sock[c], peer[c] = "closed").status = "err"

\* C9. A blocked write does not hold up the registry: no handler is kept
\* waiting at clientsMutex.Lock() by a broadcast that is blocked in a write
\* to a recipient.
C9_RegistryAvailable ==
    \A b \in Conns : BlockedInWrite(b) => \A c \in Conns \ {b} : ~AtLock(c)

\* the number of line delimiters in a text
Newlines(text) == Len(SelectSeq(text, LAMBDA ch : ch = NL))

\* the part of a chat broadcast after "<displayName>: "
Payload(c) == SubSeq(bmsg[c].text, Len(usr[c]) + 2, Len(bmsg[c].text))

\* C10. Chat framing: the text of a chat broadcast is "<displayName>: "
\* followed by exactly one complete line of the client, however the stream is
\* cut into reads.
C10_Framing ==
    \A c \in Conns :
        bmsg[c].kind = "chat" =>
            /\ Newlines(Payload(c)) = 1
            /\ Last(Payload(c)) = NL

\* c was asked for the registration code: it took the register branch
RegisterBranch(c) == Len(wrote[c]) >= 3 /\ wrote[c][3] = MsgEnterCode

\* C11. Registration never logs the user in: a handler on the register branch
\* is never in the registry, never adds itself, never broadcasts, and once the
\* outcome of the INSERT is known it only writes that outcome and returns, with
\* its connection closed.
C11_RegisterOnly ==
    \A c \in Conns :
        RegisterBranch(c) =>
            /\ NeverRegistered(c)
            /\ pc[c] \in {"regcode", "regusr", "regpwd", "regout", "done"}
            /\ bmsg[c] = NoMsg
            /\ regres[c] # "none" => pc[c] \in {"regout", "done"}
            /\ pc[c] = "done" =>
                   /\ closed[c]
                   /\ exit[c] \in {"eof", "badcode", "registered", "regfailed"}
                   /\ regres[c] = "ok" <=> exit[c] = "registered"

C11_Witness ==
    \E c \in Conns : \E d \in Conns :
        /\ RegisterBranch(c) /\ RegisterBranch(d)
        /\ pc[c] = "done" /\ regres[c] = "ok" /\ closed[c] /\ c \notin Registered
        /\ pc[d] = "done" /\ regres[d] = "fail" /\ closed[d] /\ d \notin Registered

\* the exits of the dialogue that refuse the client, and the failed read
Refusals == {"badchoice", "badcode", "nouser", "badpwd", "eof"}

\* no row of the users table was inserted by c
StoredNothing(c) ==
    /\ regres[c] = "none"
    /\ \A u \in DOMAIN regpw : regpw[u].by # c

\* the password line of a login does not hash to the stored digest
BadCredentials(c) ==
    /\ LoginTried(c)
    /\ usr[c] \in DOMAIN db
    /\ hashPassword(TrimSpace(lines[c][3])) # db[usr[c]]

\* C12. A handler that returned because of an unrecognized choice, a wrong
\* registration code, bad login credentials or a failed read of the dialogue
\* has made no broadcast, never was in the registry and inserted nothing into
\* the users table; a login with bad credentials does return that way (as an
\* unknown user when the row was inserted after its lookup).
C12_NoSideEffects ==
    \A c \in Conns :
        /\ exit[c] \in Refusals =>
               /\ pc[c] = "done" /\ closed[c]
               /\ NeverRegistered(c)
               /\ bmsg[c] = NoMsg /\ order[c] = <<>> /\ clientsMutex # c
               /\ StoredNothing(c)
        /\ BadCredentials(c) => exit[c] \in {"nouser", "badpwd"}

\* a login is refused while two sessions chat
C12_Witness ==
    \E c \in Conns :
        /\ exit[c] = "badpwd" /\ BadCredentials(c)
        /\ Cardinality(Registered) = 2
        /\ \E k \in Registered : \E b \in Registered : heard[k][b] # <<>>

\* C13. Every session in the registry has a display name that is not empty
\* and is the username of a row of the users table.
C13_NamedSessions ==
    \A k \in Registered :
        /\ clients[k].username # <<>>
        /\ clients[k].username \in DOMAIN db

\* C14. Rows of the users table are write-once: a username that is stored
\* stays stored with the same digest through every step, so a lookup of it
\* returns that digest in every later state; a registration for an existing
\* username fails and changes nothing.
C14_WriteOnce ==
    [][\A u \in DOMAIN db :
          /\ u \in DOMAIN db'
          /\ UsersSelect(db', u) = [found |-> TRUE, password |-> db[u]]]_vars

\* a registration with another password has failed on a stored username
C14_Witness ==
    \E c \in Conns :
        /\ regres[c] = "fail" /\ Len(lines[c]) = 4
        /\ usr[c] \in DOMAIN db
        /\ db[usr[c]] # hashPassword(TrimSpace(lines[c][4]))

\* c's handler has its leave notice to broadcast, or has broadcast it
Leaving(c) == bmsg[c].kind = "leave" \/ \E k \in Conns : LeftNotices(k, c) # <<>>

\* C15. A handler that has returned, on whatever path, has closed its
\* connection and has no entry in the registry; the entry is already gone
\* when the leave notice is broadcast and when the connection is closed.
C15_ClosedAndGone ==
    \A c \in Conns :
        /\ pc[c] = "done" <=> closed[c]
        /\ pc[c] = "done" <=> exit[c] # "none"
        /\ closed[c] => c \notin Registered
        /\ Leaving(c) => c \notin Registered

\* a session has left: its notice was written to a session that stays
C15_Witness ==
    \E c \in Conns : \E k \in Registered :
        /\ exit[c] = "left" /\ closed[c] /\ c \notin Registered
        /\ Len(LeftNotices(k, c)) = 1

IsJoin(x, m) == m = MsgJoined(usr[x])
IsLeave(x, m) == m = MsgLeft(usr[x])
IsChat(x, m) == Len(m) > Len(usr[x]) /\ m[Len(usr[x]) + 1] = ": "

\* r entered the registry after x did: x was written r's join notice, or r's
\* handler has added r (line 183) and not yet returned from the join broadcast
JoinedAfter(r, x) ==
    \/ bmsg[r].kind = "join"
    \/ heard[x][r] # <<>> /\ IsJoin(r, heard[x][r][1])

\* what x's handler has written to r: a join notice only in the first place,
\* a leave notice only in the last place and with x out of the registry, chat
\* messages in between; the join notice is there when r was in the registry
\* before x
Ordered(r, x) ==
    /\ \A i \in 1..Len(heard[r][x]) :
           /\ IsJoin(x, heard[r][x][i]) => i = 1
           /\ IsLeave(x, heard[r][x][i]) => i = Len(heard[r][x]) /\ x \notin Registered
           /\ IsJoin(x, heard[r][x][i]) \/ IsLeave(x, heard[r][x][i])
                  \/ IsChat(x, heard[r][x][i])
    /\ (heard[r][x] # <<>> /\ ~JoinedAfter(r, x) /\ peer[x] = "open") =>
           IsJoin(x, heard[r][x][1])

\* a write of x's handler to r is the message of the broadcast call that x's
\* handler is in, added after what was written before
Grows(r, x) ==
    heard'[r][x] # heard[r][x] =>
        /\ pc[x] = "range" /\ clientsMutex = x
        /\ heard'[r][x] = Append(heard[r][x], bmsg[x].text)

\* x's handler returns from the broadcast of its leave notice: every session
\* still registered was written the notice last (or the write to it failed)
LeaveLast(x) ==
    (pc[x] = "range" /\ pc'[x] # "range" /\ bmsg[x].kind = "leave") =>
        \A r \in Registered :
            r \in werr[x] \/ (heard[r][x] # <<>> /\ IsLeave(x, Last(heard[r][x])))

\* C16. Per-sender order: a receiver that was registered before x logged in
\* is written "x has joined the chat" first, then x's chat messages one
\* broadcast call after the other in the order of the handler's reads, then
\* "x has left the chat" last; nothing of x comes before the join notice or
\* after the leave notice.
C16_SenderOrder ==
    [][\A x \in Conns :
          /\ LeaveLast(x)
          /\ \A r \in Conns : Ordered(r, x)' /\ Grows(r, x)]_vars

\* r has been written x's join notice, a chat message of x and x's leave notice
C16_Witness ==
    \E r \in Registered : \E x \in Conns \ {r} :
        /\ Len(heard[r][x]) >= 3
        /\ IsJoin(x, heard[r][x][1])
        /\ IsChat(x, heard[r][x][2])
        /\ IsLeave(x, Last(heard[r][x]))
        /\ heard[x][r] = <<>>

\* the handlers that are inside the range loop of broadcast
InLoop == {b \in Conns : pc[b] = "range"}

\* the handler of c has writes of its own to make to c: the greeting, the
\* prompts and the outcome of the dialogue
OwnWriter(c) == pc[c] \in {"idle", "regout"} \cup ReadPcs

\* C17. Writes to one connection are never concurrent: a handler writes to its
\* own connection only before the connection enters the registry; every other
\* write is made inside broadcast by the one handler that holds clientsMutex,
\* to a connection that is in the registry and whose own handler has no
\* write left to make.
C17_OneWriter ==
    [][/\ Cardinality(InLoop') <= 1
       /\ \A b \in InLoop' :
              /\ clientsMutex' = b
              /\ \A i \in 1..Len(order'[b]) :
                     /\ order'[b][i] \in DOMAIN clients'
                     /\ ~OwnWriter(order[b][i])'
       /\ \A c \in Conns :
              /\ wrote'[c] # wrote[c] =>
                     /\ c \notin DOMAIN clients' /\ NeverRegistered(c)
                     /\ \A b \in InLoop : \A i \in 1..Len(order[b]) : order[b][i] # c
              /\ \A k \in Conns :
                     heard'[k][c] # heard[k][c] =>
                         /\ clientsMutex = c /\ InLoop = {c}
                         /\ k \in Registered /\ k # c /\ ~OwnWriter(k)]_vars

\* a broadcast is about to write to k, whose own handler waits for the lock,
\* while a third handler is in its dialogue
C17_Witness ==
    \E b \in InLoop : \E k \in Registered \ {b} : \E c \in Conns \ {b, k} :
        /\ order[b] # <<>> /\ Head(order[b]) = k
        /\ OwnWriter(c) /\ pc[c] # "idle"
        /\ pc[k] = "broadcast"

\* c's handler passed the check of lines 167-177: the row of its username was
\* found and its password line hashes to the stored digest
Authenticated(c) ==
    /\ LoginTried(c)
    /\ usr[c] \in DOMAIN db
    /\ hashPassword(TrimSpace(lines[c][3])) = db[usr[c]]
    /\ wrote[c][Len(wrote[c])] = MsgWelcomeBack(usr[c])

\* nothing was ever written to c by a broadcast, and none is about to be
Untouched(c) ==
    /\ \A b \in Conns : heard[c][b] = <<>>
    /\ last[c] = 0
    /\ \A b \in Conns : \A i \in 1..Len(order[b]) : order[b][i] # c

\* C18. Only authenticated connections are broadcast targets: every connection
\* in the registry belongs to a handler that passed the login check, and a
\* connection whose handler has not passed it (still in the dialogue,
\* registering, or refused) has never been written a join notice, a chat
\* message or a leave notice.
C18_AuthenticatedOnly ==
    \A c \in Conns :
        /\ c \in Registered => Authenticated(c)
        /\ ~Authenticated(c) => Untouched(c) /\ c \notin Registered

\* a broadcast has gone round while another connection is at the password
\* prompt
C18_Witness ==
    \E b \in Conns : \E c \in Conns \ {b} :
        /\ LoopOver(b) /\ Registered \ {b} # {}
        /\ pc[c] = "loginpwd" /\ Untouched(c)

\* c's handler is past the dialogue and reads with conn.Read from now on
PastLogin(c) == pc[c] \in {"add", "broadcast", "range", "chat"}

\* C19. No chat input is lost at the login-to-chat transition: once the login
\* has succeeded, no byte that the client sent after its password line is
\* left behind in the buffer of the dialogue's line reader, which the chat
\* loop never reads.
C19_NoInputLost ==
    \A c \in Conns : PastLogin(c) => reader[c] = <<>>

\* the registry entries of the connections other than c are the same after
\* the step
OthersKept(c) ==
    /\ DOMAIN clients' \ {c} = DOMAIN clients \ {c}
    /\ \A k \in DOMAIN clients \ {c} : clients'[k] = clients[k]

\* the sessions other than c that are logged in under c's username
Namesakes(c) == {k \in Registered \ {c} : clients[k].username = usr[c]}

\* C20. The registry is keyed by connection: a login adds the entry of its
\* own connection with a join notice and touches no other entry, also when
\* the username is already logged in; a message of a session is written to
\* the other sessions of the same username as to any other; and a session
\* that closes removes its own entry only.
C20_KeyedByConnection ==
    [][\A c \in Conns :
          /\ \A k \in Registered : clients[k] = [conn |-> k, username |-> usr[k]]
          /\ (pc[c] = "add" /\ MutexFree(clientsMutex)) => ENABLED AddClient(c)
          /\ (c \notin DOMAIN clients /\ c \in DOMAIN clients') =>
                 /\ OthersKept(c)
                 /\ bmsg'[c].kind = "join" /\ bmsg'[c].text = MsgJoined(usr[c])
          /\ (c \in DOMAIN clients /\ c \notin DOMAIN clients') => OthersKept(c)
          /\ (pc[c] = "range" /\ pc'[c] # "range") =>
                 \A k \in Namesakes(c) : k \in werr[c] \/ last[k] = bmsg[c].seq]_vars

\* b is logged in under the name of a, which has left; b was written a's chat
\* message and leave notice, and a was written b's join notice
C20_Witness ==
    \E a \in Conns : \E b \in Registered \ {a} :
        /\ usr[a] = clients[b].username
        /\ exit[a] = "left"
        /\ Len(heard[b][a]) >= 2
        /\ IsChat(a, heard[b][a][Len(heard[b][a]) - 1])
        /\ IsLeave(a, heard[b][a][Len(heard[b][a])])
        /\ heard[a][b] # <<>> /\ IsJoin(b, heard[a][b][1])

====
